---- MODULE Spec2Model ----
(***************************************************************************)
(* Dat Tin: the game state machine of js/game-manager.js as wired to the   *)
(* page by js/app.js.  The GameManager object is the record built by Obj;  *)
(* every method is an operator from the object before the call to the      *)
(* object(s) after it, so that nested calls (startRound -> updateCard ->   *)
(* endRound) compose as they do in the code.  Array indices are the        *)
(* 0-based JavaScript indices; Sequences are 1-based, hence the "+ 1".     *)
(***************************************************************************)
EXTENDS Integers, Sequences, FiniteSets, TLC

\* ---------------------------------------------------------------- bounds
MaxRecord == 2       \* correct/pass presses followed in the first round of a game
MaxLaterRecord == 0  \* correct/pass presses followed in each later round
MaxQuitRound == 0    \* quit is followed up to this many completed rounds, and at game over
MaxSkipDelay == 0    \* the countdown is skipped or quit within its first seconds

\* ------------------------------------------------------------- constants
COUNTDOWN_DURATION == 10
DEFAULT_ROUND_DURATION == 30
MAX_ROUNDS_PER_TEAM == 3
TEAM_COLORS == <<"team1-color", "team2-color", "team3-color", "team4-color">>
STATES == {"WELCOME", "TEAM_SELECTION", "GET_READY", "PLAYING", "REVIEW",
           "ROUND_OVER", "GAME_OVER"}

Decks == {"naija", "global"}
\* Set iteration order of selectedDecks.forEach is insertion order; the
\* order only permutes activeCards before the shuffle, so one order is kept.
DeckOrder == <<"naija", "global">>

\* data/cards.json as loaded, and the fallback of a failed load
LoadedCards == [naija |-> <<"Lagos">>, global |-> <<"Paris">>]
FailedCards == [naija |-> <<>>, global |-> <<>>]
loadCards == {LoadedCards, FailedCards}

\* the values the team-count and timer buttons pass to their handlers, and
\* the indices passed to toggleCardStatus
TeamCounts == {1, 2}
Durations == {1, 2}
Indices == (0 - 1)..MaxRecord

VARIABLES state, roundDuration, roundScore, timeLeft, countdownTime,
          timerInterval, countdownInterval, shuffledCards, currentCardIndex,
          roundCards, numberOfTeams, teams, currentTeamIndex,
          totalRoundsCompleted, selectedDecks, isPaused,
          cardData,        \* the object returned by loadCards
          timers,          \* round-timer intervals registered in the browser
          countdowns,      \* countdown intervals registered in the browser
          roundTicks,      \* history: unpaused updateTimer callbacks since startRound
          roundPresses,    \* history: handleCorrect/handlePass calls since startRound
          resumed,         \* history: this round's timer was resumed after a pause
          turnLog          \* history: turn index before each endRound of the game

vars == <<state, roundDuration, roundScore, timeLeft, countdownTime,
          timerInterval, countdownInterval, shuffledCards, currentCardIndex,
          roundCards, numberOfTeams, teams, currentTeamIndex,
          totalRoundsCompleted, selectedDecks, isPaused, cardData, timers,
          countdowns, roundTicks, roundPresses, resumed, turnLog>>

\* The GameManager object together with the browser's interval table.
Obj ==
  [state |-> state, roundDuration |-> roundDuration, roundScore |-> roundScore,
   timeLeft |-> timeLeft, countdownTime |-> countdownTime,
   timerInterval |-> timerInterval, countdownInterval |-> countdownInterval,
   shuffledCards |-> shuffledCards, currentCardIndex |-> currentCardIndex,
   roundCards |-> roundCards, numberOfTeams |-> numberOfTeams, teams |-> teams,
   currentTeamIndex |-> currentTeamIndex,
   totalRoundsCompleted |-> totalRoundsCompleted,
   selectedDecks |-> selectedDecks, isPaused |-> isPaused,
   cardData |-> cardData, timers |-> timers, countdowns |-> countdowns,
   roundTicks |-> roundTicks, roundPresses |-> roundPresses,
   resumed |-> resumed,
   turnLog |-> turnLog]

Install(g) ==
  /\ state' = g.state
  /\ roundDuration' = g.roundDuration
  /\ roundScore' = g.roundScore
  /\ timeLeft' = g.timeLeft
  /\ countdownTime' = g.countdownTime
  /\ timerInterval' = g.timerInterval
  /\ countdownInterval' = g.countdownInterval
  /\ shuffledCards' = g.shuffledCards
  /\ currentCardIndex' = g.currentCardIndex
  /\ roundCards' = g.roundCards
  /\ numberOfTeams' = g.numberOfTeams
  /\ teams' = g.teams
  /\ currentTeamIndex' = g.currentTeamIndex
  /\ totalRoundsCompleted' = g.totalRoundsCompleted
  /\ selectedDecks' = g.selectedDecks
  /\ isPaused' = g.isPaused
  /\ cardData' = g.cardData
  /\ timers' = g.timers
  /\ countdowns' = g.countdowns
  /\ roundTicks' = g.roundTicks
  /\ roundPresses' = g.roundPresses
  /\ resumed' = g.resumed
  /\ turnLog' = g.turnLog

\* ------------------------------------------------------- browser intervals
\* timerInterval / countdownInterval hold an interval id; the model keeps
\* whether that id still names a registered interval ("running") or not
\* ("cleared": null, or an id already cleared).  clearInterval of a cleared
\* id is a no-op; setInterval registers one more interval and overwrites
\* the id, leaving any interval the old id named registered.
clearTimerInterval(g) ==
  IF g.timerInterval = "running"
  THEN [g EXCEPT !.timerInterval = "cleared", !.timers = @ - 1]
  ELSE g

setTimerInterval(g) ==
  [g EXCEPT !.timerInterval = "running", !.timers = @ + 1]

clearCountdownInterval(g) ==
  IF g.countdownInterval = "running"
  THEN [g EXCEPT !.countdownInterval = "cleared", !.countdowns = @ - 1]
  ELSE g

setCountdownInterval(g) ==
  [g EXCEPT !.countdownInterval = "running", !.countdowns = @ + 1]

\* ------------------------------------------------------------------ utils
Swap(arr, a, b) ==
  [k \in 1..Len(arr) |-> IF k = a THEN arr[b] ELSE IF k = b THEN arr[a] ELSE arr[k]]

\* The Fisher-Yates loop from 0-based position i down to 1, every value of
\* j = floor(random * (i + 1)) in 0..i being possible.
RECURSIVE FisherYates(_, _)
FisherYates(arr, i) ==
  IF i <= 0 THEN {arr}
  ELSE UNION {FisherYates(Swap(arr, i + 1, j + 1), i - 1) : j \in 0..i}

shuffleArray(array) == FisherYates(array, Len(array) - 1)

\* ----------------------------------------------------------- GameManager
\* A card is kept as its targetWord and the category stamped on it; the
\* forbidden words are only displayed.
StampDeck(data, deck) ==
  [k \in 1..Len(data[deck]) |-> [targetWord |-> data[deck][k], category |-> deck]]

RECURSIVE ActiveFrom(_, _)
ActiveFrom(g, k) ==
  IF k > Len(DeckOrder) THEN <<>>
  ELSE (IF DeckOrder[k] \in g.selectedDecks
        THEN StampDeck(g.cardData, DeckOrder[k]) ELSE <<>>)
       \o ActiveFrom(g, k + 1)

activeCards(g) == ActiveFrom(g, 1)

NoCard == [targetWord |-> "undefined", category |-> "undefined"]

CardAt(g) ==
  IF g.currentCardIndex >= 0 /\ g.currentCardIndex < Len(g.shuffledCards)
  THEN g.shuffledCards[g.currentCardIndex + 1]
  ELSE NoCard

CountCorrect(cards) ==
  Cardinality({k \in 1..Len(cards) : cards[k].status = "correct"})

setRoundDuration(g, duration) == [g EXCEPT !.roundDuration = duration]

\* toggleDeck without the size check
toggleDeck_RemovesLast(g, deck) ==
  IF deck \in g.selectedDecks
  THEN [obj |-> [g EXCEPT !.selectedDecks = @ \ {deck}], ret |-> TRUE]
  ELSE [obj |-> [g EXCEPT !.selectedDecks = @ \cup {deck}], ret |-> TRUE]

\* toggleDeck returns the object after the call and the boolean it returns
toggleDeck(g, deck) ==
  IF deck \in g.selectedDecks
  THEN IF Cardinality(g.selectedDecks) > 1
       THEN [obj |-> [g EXCEPT !.selectedDecks = @ \ {deck}], ret |-> TRUE]
       ELSE [obj |-> g, ret |-> FALSE]
  ELSE [obj |-> [g EXCEPT !.selectedDecks = @ \cup {deck}], ret |-> TRUE]

showFinalWinner(g) == [g EXCEPT !.state = "GAME_OVER"]

\* endRound comparing with > instead of >=
endRound_LateGameOver(g) ==
  LET g1 == clearTimerInterval(g)
      g2 == [g1 EXCEPT
               !.teams[g1.currentTeamIndex + 1].score = @ + g1.roundScore,
               !.currentTeamIndex = (g1.currentTeamIndex + 1) % g1.numberOfTeams,
               !.totalRoundsCompleted = @ + 1,
               !.turnLog = Append(@, g1.currentTeamIndex), !.resumed = FALSE]
  IN IF g2.totalRoundsCompleted > g2.numberOfTeams * MAX_ROUNDS_PER_TEAM
     THEN showFinalWinner(g2)
     ELSE [g2 EXCEPT !.state = "ROUND_OVER"]

\* endRound that leaves the turn with the same team
endRound_NoAdvance(g) ==
  LET g1 == clearTimerInterval(g)
      g2 == [g1 EXCEPT
               !.teams[g1.currentTeamIndex + 1].score = @ + g1.roundScore,
               !.totalRoundsCompleted = @ + 1,
               !.turnLog = Append(@, g1.currentTeamIndex), !.resumed = FALSE]
  IN IF g2.totalRoundsCompleted >= g2.numberOfTeams * MAX_ROUNDS_PER_TEAM
     THEN showFinalWinner(g2)
     ELSE [g2 EXCEPT !.state = "ROUND_OVER"]

\* endRound wrapping the turn index one team too late
endRound_WrapsLate(g) ==
  LET g1 == clearTimerInterval(g)
      g2 == [g1 EXCEPT
               !.teams[g1.currentTeamIndex + 1].score = @ + g1.roundScore,
               !.currentTeamIndex = (g1.currentTeamIndex + 1) % (g1.numberOfTeams + 1),
               !.totalRoundsCompleted = @ + 1,
               !.turnLog = Append(@, g1.currentTeamIndex), !.resumed = FALSE]
  IN IF g2.totalRoundsCompleted >= g2.numberOfTeams * MAX_ROUNDS_PER_TEAM
     THEN showFinalWinner(g2)
     ELSE [g2 EXCEPT !.state = "ROUND_OVER"]

endRound(g) ==
  LET g1 == clearTimerInterval(g)
      g2 == [g1 EXCEPT
               !.teams[g1.currentTeamIndex + 1].score = @ + g1.roundScore,
               !.currentTeamIndex = (g1.currentTeamIndex + 1) % g1.numberOfTeams,
               !.totalRoundsCompleted = @ + 1,
               !.turnLog = Append(@, g1.currentTeamIndex), !.resumed = FALSE]
  IN IF g2.totalRoundsCompleted >= g2.numberOfTeams * MAX_ROUNDS_PER_TEAM
     THEN showFinalWinner(g2)
     ELSE [g2 EXCEPT !.state = "ROUND_OVER"]

updateCard(g) ==
  IF CardAt(g) = NoCard THEN endRound(g) ELSE g

\* nextCard reshuffling only once the cursor is past the pool length
nextCard_OffByOne(g) ==
  LET g1 == [g EXCEPT !.currentCardIndex = @ + 1]
  IN IF g1.currentCardIndex > Len(g1.shuffledCards)
     THEN {updateCard([g1 EXCEPT !.shuffledCards = s, !.currentCardIndex = 0]) :
             s \in shuffleArray(activeCards(g1))}
     ELSE {updateCard(g1)}

\* nextCard advancing the cursor without rebuilding an exhausted pool
nextCard_NoReshuffle(g) ==
  {updateCard([g EXCEPT !.currentCardIndex = @ + 1])}

nextCard(g) ==
  LET g1 == [g EXCEPT !.currentCardIndex = @ + 1]
  IN IF g1.currentCardIndex >= Len(g1.shuffledCards)
     THEN {updateCard([g1 EXCEPT !.shuffledCards = s, !.currentCardIndex = 0]) :
             s \in shuffleArray(activeCards(g1))}
     ELSE {updateCard(g1)}

\* handleCorrect crediting the playing team at once
handleCorrect_ScoresLive(g) ==
  IF CardAt(g) = NoCard THEN {[g EXCEPT !.roundPresses = @ + 1]}
  ELSE nextCard([g EXCEPT
         !.roundCards = Append(@, [word |-> CardAt(g).targetWord, status |-> "correct"]),
         !.roundScore = @ + 1,
         !.teams[g.currentTeamIndex + 1].score = @ + 1,
         !.roundPresses = @ + 1])

handleCorrect(g) ==
  IF CardAt(g) = NoCard THEN {[g EXCEPT !.roundPresses = @ + 1]}
  ELSE nextCard([g EXCEPT
         !.roundCards = Append(@, [word |-> CardAt(g).targetWord, status |-> "correct"]),
         !.roundScore = @ + 1,
         !.roundPresses = @ + 1])

\* handlePass with the push left out
handlePass_NoRecord(g) ==
  IF CardAt(g) = NoCard THEN {[g EXCEPT !.roundPresses = @ + 1]}
  ELSE nextCard([g EXCEPT !.roundPresses = @ + 1])

\* handlePass counting the skipped card into roundScore
handlePass_Scores(g) ==
  IF CardAt(g) = NoCard THEN {[g EXCEPT !.roundPresses = @ + 1]}
  ELSE nextCard([g EXCEPT
         !.roundCards = Append(@, [word |-> CardAt(g).targetWord, status |-> "skipped"]),
         !.roundScore = @ + 1,
         !.roundPresses = @ + 1])

handlePass(g) ==
  IF CardAt(g) = NoCard THEN {[g EXCEPT !.roundPresses = @ + 1]}
  ELSE nextCard([g EXCEPT
         !.roundCards = Append(@, [word |-> CardAt(g).targetWord, status |-> "skipped"]),
         !.roundPresses = @ + 1])

\* startRound without this.roundScore = 0
startRound_KeepsScore(g) ==
  LET g1 == [g EXCEPT !.state = "PLAYING", !.isPaused = FALSE,
                      !.roundCards = <<>>,
                      !.timeLeft = g.roundDuration, !.roundTicks = 0,
                      !.roundPresses = 0, !.resumed = FALSE]
  IN setTimerInterval(clearTimerInterval(updateCard(g1)))

startRound(g) ==
  LET g1 == [g EXCEPT !.state = "PLAYING", !.isPaused = FALSE,
                      !.roundCards = <<>>, !.roundScore = 0,
                      !.timeLeft = g.roundDuration, !.roundTicks = 0,
                      !.roundPresses = 0, !.resumed = FALSE]
  IN setTimerInterval(clearTimerInterval(updateCard(g1)))

\* showReviewScreen without clearInterval(this.timerInterval)
showReviewScreen_KeepsTimer(g) == [g EXCEPT !.state = "REVIEW"]

showReviewScreen(g) == clearTimerInterval([g EXCEPT !.state = "REVIEW"])

updateTimer(g) ==
  IF g.isPaused THEN g
  ELSE LET g1 == [g EXCEPT !.timeLeft = @ - 1, !.roundTicks = @ + 1]
       IN IF g1.timeLeft <= 0 THEN showReviewScreen(g1) ELSE g1

startCountdown(g) ==
  setCountdownInterval(clearCountdownInterval(
    [g EXCEPT !.state = "GET_READY", !.countdownTime = COUNTDOWN_DURATION]))

\* the callback startCountdown hands to setInterval
countdownTick(g) ==
  LET g1 == [g EXCEPT !.countdownTime = @ - 1]
  IN IF g1.countdownTime <= 0 THEN startRound(clearCountdownInterval(g1)) ELSE g1

skipCountdown(g) == startRound(clearCountdownInterval(g))

NewTeam(i) ==
  [name |-> i + 1, score |-> 0,
   color |-> IF i + 1 <= Len(TEAM_COLORS) THEN TEAM_COLORS[i + 1] ELSE "undefined"]

\* setupAndStartGame without the activeCards.length === 0 return
setupAndStartGame_NoEmptyCheck(g, teamCount) ==
  LET g1 == [g EXCEPT !.numberOfTeams = teamCount,
                      !.teams = [i \in 1..teamCount |-> NewTeam(i - 1)],
                      !.currentTeamIndex = 0, !.totalRoundsCompleted = 0,
                      !.turnLog = <<>>]
  IN {startCountdown([g1 EXCEPT !.shuffledCards = s, !.currentCardIndex = 0]) :
        s \in shuffleArray(activeCards(g1))}

\* setupAndStartGame without the reset of currentTeamIndex
setupAndStartGame_KeepsTurn(g, teamCount) ==
  LET g1 == [g EXCEPT !.numberOfTeams = teamCount,
                      !.teams = [i \in 1..teamCount |-> NewTeam(i - 1)],
                      !.currentTeamIndex = @ % teamCount,
                      !.totalRoundsCompleted = 0,
                      !.turnLog = <<>>]
  IN IF Len(activeCards(g1)) = 0
     THEN {g1}
     ELSE {startCountdown([g1 EXCEPT !.shuffledCards = s, !.currentCardIndex = 0]) :
             s \in shuffleArray(activeCards(g1))}

\* setupAndStartGame that builds the pool only when none is held yet
setupAndStartGame_ReusesPool(g, teamCount) ==
  LET g1 == [g EXCEPT !.numberOfTeams = teamCount,
                      !.teams = [i \in 1..teamCount |-> NewTeam(i - 1)],
                      !.currentTeamIndex = 0, !.totalRoundsCompleted = 0,
                      !.turnLog = <<>>]
  IN IF Len(activeCards(g1)) = 0
     THEN {g1}
     ELSE IF Len(g1.shuffledCards) > 0
     THEN {startCountdown([g1 EXCEPT !.currentCardIndex = 0])}
     ELSE {startCountdown([g1 EXCEPT !.shuffledCards = s, !.currentCardIndex = 0]) :
             s \in shuffleArray(activeCards(g1))}

setupAndStartGame(g, teamCount) ==
  LET g1 == [g EXCEPT !.numberOfTeams = teamCount,
                      !.teams = [i \in 1..teamCount |-> NewTeam(i - 1)],
                      !.currentTeamIndex = 0, !.totalRoundsCompleted = 0,
                      !.turnLog = <<>>]
  IN IF Len(activeCards(g1)) = 0
     THEN {g1}      \* alert('Please select at least one deck!'); return
     ELSE {startCountdown([g1 EXCEPT !.shuffledCards = s, !.currentCardIndex = 0]) :
             s \in shuffleArray(activeCards(g1))}

\* togglePause restarting the round time on resume
togglePause_RestartsTime(g) ==
  IF g.state # "PLAYING" THEN g
  ELSE LET g1 == [g EXCEPT !.isPaused = ~@]
       IN IF g1.isPaused THEN clearTimerInterval(g1)
          ELSE setTimerInterval([g1 EXCEPT !.timeLeft = g1.roundDuration,
                                            !.resumed = TRUE])

\* togglePause leaving the interval registered while paused
togglePause_KeepsInterval(g) ==
  IF g.state # "PLAYING" THEN g
  ELSE LET g1 == [g EXCEPT !.isPaused = ~@]
       IN IF g1.isPaused THEN g1
          ELSE setTimerInterval([g1 EXCEPT !.resumed = TRUE])

\* togglePause without the return when state is not PLAYING
togglePause_NoPhaseGuard(g) ==
  LET g1 == [g EXCEPT !.isPaused = ~@]
  IN IF g1.isPaused THEN clearTimerInterval(g1)
     ELSE setTimerInterval([g1 EXCEPT !.resumed = TRUE])

togglePause(g) ==
  IF g.state # "PLAYING" THEN g
  ELSE LET g1 == [g EXCEPT !.isPaused = ~@]
       IN IF g1.isPaused THEN clearTimerInterval(g1)
          ELSE setTimerInterval([g1 EXCEPT !.resumed = TRUE])

\* toggleCardStatus reading the entry with roundCards.at(index), which
\* counts a negative index from the end
toggleCardStatus_Wraps(g, index) ==
  LET i == IF index < 0 THEN Len(g.roundCards) + index ELSE index
  IN IF i >= 0 /\ i < Len(g.roundCards)
     THEN [g EXCEPT !.roundCards[i + 1].status =
                       IF @ = "correct" THEN "skipped" ELSE "correct"]
     ELSE g

toggleCardStatus(g, index) ==
  IF index >= 0 /\ index < Len(g.roundCards)
  THEN [g EXCEPT !.roundCards[index + 1].status =
                    IF @ = "correct" THEN "skipped" ELSE "correct"]
  ELSE g

\* confirmScore ending the round with the provisional score
confirmScore_Provisional(g) == endRound(g)

confirmScore(g) == endRound([g EXCEPT !.roundScore = CountCorrect(g.roundCards)])

resetGame(g) ==
  [clearCountdownInterval(clearTimerInterval(g)) EXCEPT
     !.state = "TEAM_SELECTION", !.totalRoundsCompleted = 0, !.turnLog = <<>>,
     !.resumed = FALSE]

\* quitGame without this.isPaused = false
quitGame_KeepsPause(g, confirmed) ==
  IF confirmed
  THEN [clearCountdownInterval(clearTimerInterval(g)) EXCEPT
          !.state = "WELCOME", !.totalRoundsCompleted = 0,
          !.currentCardIndex = 0, !.roundScore = 0, !.turnLog = <<>>,
          !.resumed = FALSE]
  ELSE g

\* quitGame without clearInterval(this.timerInterval)
quitGame_KeepsTimer(g, confirmed) ==
  IF confirmed
  THEN [clearCountdownInterval(g) EXCEPT
          !.isPaused = FALSE, !.state = "WELCOME", !.totalRoundsCompleted = 0,
          !.currentCardIndex = 0, !.roundScore = 0, !.turnLog = <<>>,
          !.resumed = FALSE]
  ELSE g

\* confirmed is the answer the user gives to the confirm() dialog
quitGame(g, confirmed) ==
  IF confirmed
  THEN [clearCountdownInterval(clearTimerInterval(g)) EXCEPT
          !.isPaused = FALSE, !.state = "WELCOME", !.totalRoundsCompleted = 0,
          !.currentCardIndex = 0, !.roundScore = 0, !.turnLog = <<>>,
          !.resumed = FALSE]
  ELSE g

\* ------------------------------------------------------------ construction
Init ==
  /\ state = "WELCOME"
  /\ roundDuration = DEFAULT_ROUND_DURATION
  /\ roundScore = 0
  /\ timeLeft = DEFAULT_ROUND_DURATION
  /\ countdownTime = COUNTDOWN_DURATION
  /\ timerInterval = "cleared"
  /\ countdownInterval = "cleared"
  /\ shuffledCards = <<>>
  /\ currentCardIndex = 0
  /\ roundCards = <<>>
  /\ numberOfTeams = 0
  /\ teams = <<>>
  /\ currentTeamIndex = 0
  /\ totalRoundsCompleted = 0
  /\ selectedDecks = {"naija"}
  /\ isPaused = FALSE
  /\ cardData \in loadCards
  /\ timers = 0
  /\ countdowns = 0
  /\ roundTicks = 0
  /\ roundPresses = 0
  /\ resumed = FALSE
  /\ turnLog = <<>>

\* The step that runs a handler: results is the set of objects the handler
\* can leave behind.
Run(results) == \E g \in results : Install(g)

\* ------------------------------------------------------------------ page
\* The phases whose screen carries a control.  renderScreen shows exactly
\* the screen of the current phase, so a control acts only in these phases.
Clickable(control) ==
  CASE control = "play-now-btn" -> {"WELCOME"}
    [] control \in {"deck-option", "timer-btn", "team-count-btn"} -> {"TEAM_SELECTION"}
    [] control = "skip-countdown-btn" -> {"GET_READY"}
    [] control \in {"correct-btn", "pass-btn", "pause-btn", "resume-btn"} -> {"PLAYING"}
    [] control \in {"status-btn", "confirm-score-btn"} -> {"REVIEW"}
    [] control = "next-round-btn" -> {"ROUND_OVER"}
    [] control \in {"new-game-btn", "play-again-btn"} ->
         {"TEAM_SELECTION", "ROUND_OVER", "GAME_OVER"}
    [] control \in {"quit-game-btn", "quit-pause-btn"} -> STATES

Prompt == countdownTime >= COUNTDOWN_DURATION - MaxSkipDelay

PressLimit == IF totalRoundsCompleted = 0 THEN MaxRecord ELSE MaxLaterRecord

PlayNow ==
  /\ state \in Clickable("play-now-btn")
  /\ Run({[Obj EXCEPT !.state = "TEAM_SELECTION"]})

ClickDeck(deck) ==
  /\ state \in Clickable("deck-option")
  /\ Run({toggleDeck(Obj, deck).obj})

ClickTimer(duration) ==
  /\ state \in Clickable("timer-btn")
  /\ Run({setRoundDuration(Obj, duration)})

\* a game is followed when a timer button chose its round duration
ClickTeamCount(teamCount) ==
  /\ state \in Clickable("team-count-btn")
  /\ roundDuration \in Durations
  /\ Run(setupAndStartGame(Obj, teamCount))

CountdownCallback ==
  /\ countdowns > 0
  /\ Run({countdownTick(Obj)})

SkipCountdown ==
  /\ state \in Clickable("skip-countdown-btn")
  /\ Prompt
  /\ Run({skipCountdown(Obj)})

TimerCallback ==
  /\ timers > 0
  /\ Run({updateTimer(Obj)})

Correct ==
  /\ state \in Clickable("correct-btn")
  /\ Len(roundCards) < PressLimit
  /\ Run(handleCorrect(Obj))

Pass ==
  /\ state \in Clickable("pass-btn")
  /\ Len(roundCards) < PressLimit
  /\ Run(handlePass(Obj))

Pause ==
  /\ state \in Clickable("pause-btn")
  /\ Run({togglePause(Obj)})

\* the status buttons showReviewScreen renders, one per record entry
ReviewToggle(index) ==
  /\ state \in Clickable("status-btn")
  /\ index >= 0 /\ index < Len(roundCards)
  /\ Run({toggleCardStatus(Obj, index)})

Confirm ==
  /\ state \in Clickable("confirm-score-btn")
  /\ Run({confirmScore(Obj)})

NextRound ==
  /\ state \in Clickable("next-round-btn")
  /\ Run({startCountdown(Obj)})

Reset ==
  /\ state \in Clickable("new-game-btn")
  /\ Run({resetGame(Obj)})

Quit(confirmed) ==
  /\ state \in Clickable("quit-game-btn")
  /\ totalRoundsCompleted <= MaxQuitRound \/ state = "GAME_OVER"
  /\ state = "GET_READY" => Prompt
  /\ Run({quitGame(Obj, confirmed)})

Next ==
  \/ PlayNow
  \/ \E deck \in Decks : ClickDeck(deck)
  \/ \E duration \in Durations : ClickTimer(duration)
  \/ \E teamCount \in TeamCounts : ClickTeamCount(teamCount)
  \/ CountdownCallback
  \/ SkipCountdown
  \/ TimerCallback
  \/ Correct
  \/ Pass
  \/ Pause
  \/ \E index \in Indices : ReviewToggle(index)
  \/ Confirm
  \/ NextRound
  \/ Reset
  \/ \E confirmed \in BOOLEAN : Quit(confirmed)

Spec == Init /\ [][Next]_vars

\* A registered interval fires its callback one period after setInterval
\* unless clearInterval comes first: a callback that stays enabled is
\* eventually run.
Fairness == WF_vars(TimerCallback) /\ WF_vars(CountdownCallback)

SpecFair == Spec /\ Fairness

\* window.toggleCardStatus is a global: script on the page can call it in
\* any phase and with any index.
WindowToggleCardStatus(index) ==
  /\ state \in STATES
  /\ Run({toggleCardStatus(Obj, index)})

NextGlobal ==
  \/ Next
  \/ \E index \in Indices : WindowToggleCardStatus(index)

SpecGlobal == Init /\ [][NextGlobal]_vars

\* Card data in which one deck is empty, and the deck-option listener taken
\* as it is registered: it calls toggleDeck whatever the phase is.
SparseCards == [naija |-> <<"Lagos">>, global |-> <<>>]

InitSparse ==
  /\ state = "WELCOME"
  /\ roundDuration = DEFAULT_ROUND_DURATION
  /\ roundScore = 0
  /\ timeLeft = DEFAULT_ROUND_DURATION
  /\ countdownTime = COUNTDOWN_DURATION
  /\ timerInterval = "cleared"
  /\ countdownInterval = "cleared"
  /\ shuffledCards = <<>>
  /\ currentCardIndex = 0
  /\ roundCards = <<>>
  /\ numberOfTeams = 0
  /\ teams = <<>>
  /\ currentTeamIndex = 0
  /\ totalRoundsCompleted = 0
  /\ selectedDecks = {"naija"}
  /\ isPaused = FALSE
  /\ cardData = SparseCards
  /\ timers = 0
  /\ countdowns = 0
  /\ roundTicks = 0
  /\ roundPresses = 0
  /\ resumed = FALSE
  /\ turnLog = <<>>

DeckOptionClick(deck) ==
  /\ state \in STATES
  /\ Run({toggleDeck(Obj, deck).obj})

NextSparse ==
  \/ Next
  \/ \E deck \in Decks : DeckOptionClick(deck)

SpecSparse == InitSparse /\ [][NextSparse]_vars

TypeOK ==
  /\ state \in STATES
  /\ timers \in Nat /\ countdowns \in Nat

\* ---------------------------------------------------------------- claims
InGame == {"GET_READY", "PLAYING", "REVIEW", "ROUND_OVER"}

RECURSIVE NumCorrect(_)
NumCorrect(rec) ==
  IF rec = <<>> THEN 0
  ELSE (IF Head(rec).status = "correct" THEN 1 ELSE 0) + NumCorrect(Tail(rec))

Occurrences(seq, x) == Cardinality({k \in 1..Len(seq) : seq[k] = x})

IsPermutation(a, b) ==
  /\ Len(a) = Len(b)
  /\ \A k \in 1..Len(a) : Occurrences(a, a[k]) = Occurrences(b, a[k])

\* C1: the set of selected decks never becomes empty; toggleDeck on the only
\* selected deck returns false and changes nothing, and every other
\* toggleDeck returns true and flips the membership of exactly that deck.
C1_DeckSelectionNeverEmpty ==
  /\ Cardinality(selectedDecks) >= 1
  /\ \A deck \in Decks :
       LET r == toggleDeck(Obj, deck)
       IN IF selectedDecks = {deck}
          THEN r.ret = FALSE /\ r.obj = Obj
          ELSE /\ r.ret = TRUE
               /\ (deck \in r.obj.selectedDecks) = (deck \notin selectedDecks)
               /\ r.obj.selectedDecks \ {deck} = selectedDecks \ {deck}
               /\ r.obj = [Obj EXCEPT !.selectedDecks = r.obj.selectedDecks]

\* naija, the initial selection, was deselected after global was added, so
\* global is now the only selected deck
C1_Witness == state = "TEAM_SELECTION" /\ selectedDecks = {"global"}

\* C2: the phase is GAME_OVER exactly from the confirmation that makes
\* totalRoundsCompleted equal numberOfTeams * 3: every earlier confirmation
\* leads to ROUND_OVER, and no phase of a running game has
\* totalRoundsCompleted >= numberOfTeams * 3.
C2_GameOverExactlyAtLastRound ==
  /\ state \in InGame =>
       numberOfTeams >= 1 /\ totalRoundsCompleted < numberOfTeams * MAX_ROUNDS_PER_TEAM
  /\ state = "GAME_OVER" =>
       totalRoundsCompleted = numberOfTeams * MAX_ROUNDS_PER_TEAM
  /\ state = "REVIEW" =>
       LET r == confirmScore(Obj)
       IN /\ r.totalRoundsCompleted = totalRoundsCompleted + 1
          /\ r.numberOfTeams = numberOfTeams
          /\ r.state = IF totalRoundsCompleted + 1 = numberOfTeams * MAX_ROUNDS_PER_TEAM
                       THEN "GAME_OVER" ELSE "ROUND_OVER"

C2_Witness ==
  state = "GAME_OVER" /\ numberOfTeams = 2 /\ totalRoundsCompleted = 6

\* C3: confirmScore in REVIEW adds to the current team's score exactly the
\* number of record entries that are 'correct' at that moment, whatever the
\* provisional roundScore is, and changes no other team's score.
C3_ConfirmAddsCorrectCount ==
  state = "REVIEW" =>
    LET r == confirmScore(Obj)
    IN /\ Len(r.teams) = Len(teams)
       /\ \A k \in 1..Len(teams) :
            /\ r.teams[k].name = teams[k].name
            /\ r.teams[k].score =
                 IF k = currentTeamIndex + 1
                 THEN teams[k].score + NumCorrect(roundCards)
                 ELSE teams[k].score

\* a review in which toggles made the count of correct entries differ from
\* the provisional score, in a game of two teams
C3_Witness ==
  /\ state = "REVIEW" /\ numberOfTeams = 2
  /\ Len(roundCards) = 2
  /\ roundScore # NumCorrect(roundCards)

\* C4: each round confirmation advances the turn index by one modulo the
\* number of teams, so after numberOfTeams confirmations in a row the turn
\* index is what it was before the first of them.
C4_TurnIndexCycles ==
  LET n == Len(turnLog)
      After(k) == IF k = n THEN currentTeamIndex ELSE turnLog[k + 1]
  IN \A k \in 1..n :
       /\ After(k) = (turnLog[k] + 1) % numberOfTeams
       /\ k + numberOfTeams - 1 <= n => After(k + numberOfTeams - 1) = turnLog[k]

C4_Witness ==
  /\ state = "ROUND_OVER" /\ numberOfTeams = 2
  /\ Len(turnLog) = 3 /\ currentTeamIndex = 1

\* C5: a round starts with an empty record, and in PLAYING every
\* handleCorrect / handlePass appends exactly one entry, the word of the
\* card served with status 'correct' resp. 'skipped', leaving the earlier
\* entries as they are; after N such calls the record has length N.
C5_RecordAppendOnly ==
  /\ state = "GET_READY" => skipCountdown(Obj).roundCards = <<>>
  /\ state = "GET_READY" /\ countdownTime = 1 => countdownTick(Obj).roundCards = <<>>
  /\ state = "PLAYING" =>
       /\ Len(roundCards) = roundPresses
       /\ \A r \in handleCorrect(Obj) :
            r.roundCards =
              Append(roundCards, [word |-> CardAt(Obj).targetWord, status |-> "correct"])
       /\ \A r \in handlePass(Obj) :
            r.roundCards =
              Append(roundCards, [word |-> CardAt(Obj).targetWord, status |-> "skipped"])

C5_Witness ==
  /\ state = "PLAYING" /\ roundPresses = 2
  /\ Len(roundCards) = 2
  /\ roundCards[1].status = "correct" /\ roundCards[2].status = "skipped"

\* C6: in PLAYING the cursor always names a card of the pool, and an advance
\* that moves the cursor to the pool length rebuilds the pool from the
\* selected decks and resets the cursor to 0.
C6_CardAlwaysAvailable ==
  state = "PLAYING" =>
    /\ 0 <= currentCardIndex /\ currentCardIndex < Len(shuffledCards)
    /\ CardAt(Obj) # NoCard
    /\ \A r \in nextCard(Obj) :
         /\ r.state = "PLAYING"
         /\ 0 <= r.currentCardIndex /\ r.currentCardIndex < Len(r.shuffledCards)
         /\ IF currentCardIndex + 1 >= Len(shuffledCards)
            THEN /\ r.currentCardIndex = 0
                 /\ IsPermutation(r.shuffledCards, activeCards(Obj))
            ELSE /\ r.currentCardIndex = currentCardIndex + 1
                 /\ r.shuffledCards = shuffledCards

\* two cards were served from a pool of one card, and the third is on show
C6_Witness ==
  /\ state = "PLAYING" /\ Len(shuffledCards) = 1
  /\ Len(roundCards) = 2 /\ currentCardIndex = 0

\* C7: while the round is paused the remaining time does not change and the
\* round does not expire; the countdown goes on from the paused remainder,
\* so the unpaused ticks counted up to expiry equal the round duration.
C7_TicksAccountedFor ==
  /\ state = "PLAYING" => timeLeft + roundTicks = roundDuration /\ timeLeft > 0
  /\ state = "PLAYING" /\ isPaused => timers = 0 /\ updateTimer(Obj) = Obj
  /\ state = "REVIEW" => roundTicks = roundDuration /\ timeLeft = 0

C7_PauseFreezesTimer ==
  /\ []C7_TicksAccountedFor
  /\ [][isPaused => (timeLeft' = timeLeft /\ state' # "REVIEW")]_vars

\* a round of two seconds that was paused and resumed has expired after
\* two counted ticks
C7_Witness ==
  /\ state = "REVIEW" /\ resumed
  /\ roundDuration = 2 /\ roundTicks = 2 /\ timeLeft = 0

\* C8: toggleCardStatus called in a phase other than REVIEW leaves the round
\* record unchanged, also with an in-range index.
C8_ToggleOnlyInReview ==
  [][\A index \in Indices :
       (state # "REVIEW" /\ WindowToggleCardStatus(index)) =>
         roundCards' = roundCards]_vars

\* C9: toggleCardStatus with an index outside 0..length-1 changes nothing;
\* with an index inside it, in REVIEW, it flips the status of exactly that
\* entry and changes nothing else.
C9_ToggleFrame ==
  \A index \in Indices :
    LET r == toggleCardStatus(Obj, index)
    IN IF index < 0 \/ index >= Len(roundCards)
       THEN r = Obj
       ELSE state = "REVIEW" =>
              /\ r = [Obj EXCEPT !.roundCards = r.roundCards]
              /\ Len(r.roundCards) = Len(roundCards)
              /\ \A k \in 1..Len(roundCards) :
                   /\ r.roundCards[k].word = roundCards[k].word
                   /\ (r.roundCards[k].status = roundCards[k].status) = (k # index + 1)
                   /\ r.roundCards[k].status \in {"correct", "skipped"}

\* a review whose record of two entries no longer agrees with the
\* provisional score: an in-range toggle has acted
C9_Witness ==
  /\ state = "REVIEW" /\ Len(roundCards) = 2
  /\ roundCards[1].status # roundCards[2].status
  /\ roundScore = 2

\* C10: at most one round-timer interval and at most one countdown interval
\* is registered at any time.
C10_AtMostOneInterval ==
  /\ timers <= 1 /\ countdowns <= 1
  /\ timers = (IF timerInterval = "running" THEN 1 ELSE 0)
  /\ countdowns = (IF countdownInterval = "running" THEN 1 ELSE 0)

\* the round timer runs again after a pause in the middle of the round
C10_Witness ==
  /\ state = "PLAYING" /\ resumed /\ ~isPaused
  /\ timers = 1 /\ countdowns = 0
  /\ roundTicks = 1 /\ timeLeft = 1


\* C11: when the selected decks hold no cards, setupAndStartGame does not
\* proceed: the phase stays TEAM_SELECTION and no interval is registered;
\* with empty card data GET_READY and PLAYING are never reached.
C11_EmptyDecksBlockSetup ==
  /\ cardData = FailedCards =>
       /\ state \in {"WELCOME", "TEAM_SELECTION"}
       /\ timers = 0 /\ countdowns = 0
  /\ state = "TEAM_SELECTION" /\ Len(activeCards(Obj)) = 0 =>
       \A teamCount \in TeamCounts :
         \A r \in setupAndStartGame(Obj, teamCount) :
           /\ r.state = "TEAM_SELECTION"
           /\ r.timers = 0 /\ r.countdowns = 0
           /\ r.timerInterval = timerInterval
           /\ r.countdownInterval = countdownInterval

\* the load failed and a team count of 2 was chosen: the teams were built,
\* the phase is still TEAM_SELECTION
C11_Witness ==
  /\ cardData = FailedCards /\ state = "TEAM_SELECTION"
  /\ numberOfTeams = 2 /\ Len(teams) = 2
  /\ shuffledCards = <<>>

\* C12: a confirmed quit leads from every phase to WELCOME with both
\* intervals cleared and the pause flag false; in WELCOME no interval is
\* registered, so the phase stays WELCOME until play is pressed.
C12_QuitLandsInWelcome ==
  LET r == quitGame(Obj, TRUE)
  IN /\ r.state = "WELCOME"
     /\ r.timers = 0 /\ r.countdowns = 0
     /\ r.timerInterval = "cleared" /\ r.countdownInterval = "cleared"
     /\ ~r.isPaused
     /\ quitGame(Obj, FALSE) = Obj
     /\ state = "WELCOME" => timers = 0 /\ countdowns = 0 /\ ~isPaused

C12_QuitStopsEverything ==
  /\ []C12_QuitLandsInWelcome
  /\ [][state = "WELCOME" /\ state' # "WELCOME" => PlayNow]_vars

\* back in WELCOME after a round of two seconds was quit after its first tick
C12_Witness ==
  /\ state = "WELCOME" /\ numberOfTeams = 2
  /\ roundTicks = 1 /\ timeLeft = 1 /\ Len(roundCards) = 1
  /\ timers = 0 /\ countdowns = 0

\* C13: every game that starts, also after a reset or quit of an earlier
\* game, begins with teamCount teams named Team 1..Team teamCount, all
\* scores 0, turn index 0 and totalRoundsCompleted 0.
FreshTeams(ts, count) ==
  /\ Len(ts) = count
  /\ \A i \in 1..count :
       ts[i].name = i /\ ts[i].score = 0 /\ ts[i].color = TEAM_COLORS[i]

C13_GameStartsFresh ==
  /\ state = "TEAM_SELECTION" =>
       \A teamCount \in TeamCounts :
         \A r \in setupAndStartGame(Obj, teamCount) :
           /\ r.numberOfTeams = teamCount
           /\ FreshTeams(r.teams, teamCount)
           /\ r.currentTeamIndex = 0
           /\ r.totalRoundsCompleted = 0
  /\ state \in InGame /\ totalRoundsCompleted = 0 =>
       /\ numberOfTeams \in TeamCounts
       /\ FreshTeams(teams, numberOfTeams)
       /\ currentTeamIndex = 0

\* a game of two teams is about to begin while the record of an earlier
\* game's expired round is still held
C13_Witness ==
  /\ state = "GET_READY" /\ totalRoundsCompleted = 0
  /\ numberOfTeams = 2 /\ FreshTeams(teams, 2) /\ currentTeamIndex = 0
  /\ Len(roundCards) = 2 /\ roundScore = 2 /\ timeLeft = 0

\* C14: each timer expires exactly once per start.  A round tick lowers
\* timeLeft by exactly 1; the tick that reaches 0 sets REVIEW and clears the
\* round interval, so no tick follows.  A countdown tick lowers countdownTime
\* by 1; the tick that reaches 0 starts the round and clears the countdown
\* interval.
C14_TimersExpireOnce ==
  /\ timers > 0 =>
       /\ state = "PLAYING" /\ ~isPaused /\ timeLeft > 0
       /\ LET r == updateTimer(Obj)
          IN /\ r.timeLeft = timeLeft - 1
             /\ IF timeLeft = 1
                THEN r.state = "REVIEW" /\ r.timers = 0 /\ r.countdowns = 0
                ELSE r.state = "PLAYING" /\ r.timers = 1
  /\ countdowns > 0 =>
       /\ state = "GET_READY" /\ countdownTime > 0
       /\ LET r == countdownTick(Obj)
          IN /\ r.countdownTime = countdownTime - 1
             /\ IF countdownTime = 1
                THEN r.state = "PLAYING" /\ r.countdowns = 0 /\ r.timers = 1
                ELSE r.state = "GET_READY" /\ r.countdowns = 1 /\ r.timers = 0
  /\ state = "REVIEW" => timers = 0 /\ countdowns = 0

\* the countdown ran down to 0 by itself and so did the round of two seconds
C14_Witness ==
  /\ state = "REVIEW" /\ countdownTime = 0
  /\ roundDuration = 2 /\ roundTicks = 2 /\ timeLeft = 0
  /\ timers = 0 /\ countdowns = 0

\* C15: PLAYING is left only by the expiry of the round timer (to REVIEW) or
\* by a confirmed quit (to WELCOME).  Correct, pass and pause/resume keep the
\* phase PLAYING and change neither the teams, the turn index nor
\* totalRoundsCompleted.
C15_ActionsKeepPlaying ==
  state = "PLAYING" =>
    \A r \in handleCorrect(Obj) \cup handlePass(Obj) \cup {togglePause(Obj)} :
      /\ r.state = "PLAYING"
      /\ r.teams = teams
      /\ r.currentTeamIndex = currentTeamIndex
      /\ r.totalRoundsCompleted = totalRoundsCompleted

C15_PlayingExits ==
  /\ []C15_ActionsKeepPlaying
  /\ [][state = "PLAYING" /\ state' # "PLAYING" =>
          \/ state' = "REVIEW" /\ TimerCallback
          \/ state' = "WELCOME" /\ Quit(TRUE)]_vars

\* still PLAYING after two presses and a pause followed by a resume
C15_Witness ==
  /\ state = "PLAYING" /\ roundPresses = 2 /\ Len(roundCards) = 2
  /\ resumed /\ ~isPaused /\ timers = 1
  /\ totalRoundsCompleted = 0 /\ currentTeamIndex = 0

\* C16: the expiry of the countdown and the skip button both leave GET_READY
\* for PLAYING with the countdown interval cleared, the round interval
\* registered, isPaused false, roundScore 0, an empty record and timeLeft
\* equal to roundDuration.
RoundJustStarted(r) ==
  /\ r.state = "PLAYING"
  /\ r.countdowns = 0 /\ r.countdownInterval = "cleared"
  /\ r.timers = 1 /\ r.timerInterval = "running"
  /\ ~r.isPaused
  /\ r.roundScore = 0
  /\ r.roundCards = <<>>
  /\ r.timeLeft = roundDuration

C16_RoundStartsClean ==
  state = "GET_READY" =>
    /\ RoundJustStarted(skipCountdown(Obj))
    /\ countdownTime = 1 => RoundJustStarted(countdownTick(Obj))

\* the second round of a game has just started; the first one scored 2
C16_Witness ==
  /\ RoundJustStarted(Obj)
  /\ roundTicks = 0 /\ roundPresses = 0
  /\ totalRoundsCompleted = 1 /\ teams[1].score = 2

\* C17: team scores change only at round end.  Correct, pass, pause/resume,
\* timer ticks, review toggles, countdown events and next-round leave teams
\* unchanged; only the confirm of a review and the setup of a new game write
\* it.  Within one game every score is at least 0 and never decreases.
C17_ScoresNonNegative ==
  \A k \in 1..Len(teams) : teams[k].score >= 0

C17_ScoresOnlyAtRoundEnd ==
  /\ []C17_ScoresNonNegative
  /\ [][teams' # teams => (Confirm \/ \E n \in TeamCounts : ClickTeamCount(n))]_vars
  /\ [][~(\E n \in TeamCounts : ClickTeamCount(n)) =>
          /\ Len(teams') = Len(teams)
          /\ \A k \in 1..Len(teams) : teams'[k].score >= teams[k].score]_vars

\* two correct answers, a pause and a resume into the first round, every
\* team still has 0
C17_Witness ==
  /\ state = "PLAYING" /\ roundScore = 2 /\ resumed
  /\ numberOfTeams = 2 /\ \A k \in 1..Len(teams) : teams[k].score = 0

C19_PauseFrame ==
  LET r == togglePause(Obj)
  IN IF state # "PLAYING"
     THEN r = Obj
     ELSE /\ r = [Obj EXCEPT !.isPaused = ~isPaused,
                             !.timerInterval = r.timerInterval,
                             !.timers = r.timers,
                             !.resumed = r.resumed]
          /\ r.timers = IF isPaused THEN 1 ELSE 0
          /\ r.timerInterval = IF isPaused THEN "running" ELSE "cleared"

\* paused after one correct answer and one tick of a two-second round:
\* score, record and remaining time are the ones of before the pause
C19_Witness ==
  /\ state = "PLAYING" /\ isPaused /\ timers = 0
  /\ roundDuration = 2 /\ roundTicks = 1 /\ timeLeft = 1
  /\ roundScore = 1 /\ Len(roundCards) = 1

\* C20: a confirmed quit of a round in progress or under review clears the
\* round-scoped counters: roundScore is 0, the remaining time is reset to the
\* round duration and the record is empty.
C20_QuitClearsRound ==
  [][(state \in {"PLAYING", "REVIEW"} /\ Quit(TRUE)) =>
       /\ roundScore' = 0
       /\ timeLeft' = roundDuration
       /\ roundCards' = <<>>]_vars

\* C21: the round record is frozen once the round ends.  From REVIEW until
\* the next round starts, the length of the record and the words of its
\* entries do not change, and a handleCorrect or handlePass call arriving in
\* REVIEW, ROUND_OVER or GAME_OVER appends nothing and moves neither the card
\* cursor nor the provisional score.
RoundEnded == {"REVIEW", "ROUND_OVER", "GAME_OVER"}

C21_LateActionsAppendNothing ==
  state \in RoundEnded =>
    \A r \in handleCorrect(Obj) \cup handlePass(Obj) :
      /\ r.roundCards = roundCards
      /\ r.currentCardIndex = currentCardIndex
      /\ r.roundScore = roundScore

C21_WordsKeptUnderPage ==
  [][(state \in RoundEnded /\ state' # "PLAYING") =>
       (/\ Len(roundCards') = Len(roundCards)
        /\ \A k \in 1..Len(roundCards) :
             roundCards'[k].word = roundCards[k].word)]_vars

C21_RecordFrozen ==
  /\ []C21_LateActionsAppendNothing
  /\ C21_WordsKeptUnderPage

\* C22: an empty pool at draw time is not swallowed: the round is not ended
\* as if it had been confirmed (totalRoundsCompleted grows, the turn advances
\* and roundScore is credited only by the confirm of a review) and no round
\* interval is registered outside PLAYING.
C22_TimerOnlyInPlaying == timers > 0 => state = "PLAYING"

C23_TurnFollowsRoundCount ==
  /\ state \in InGame =>
       /\ numberOfTeams \in TeamCounts /\ Len(teams) = numberOfTeams
       /\ 0 <= currentTeamIndex /\ currentTeamIndex < numberOfTeams
       /\ currentTeamIndex = totalRoundsCompleted % numberOfTeams
       /\ Len(turnLog) = totalRoundsCompleted
       /\ \A k \in 1..Len(turnLog) : turnLog[k] = (k - 1) % numberOfTeams
  /\ state = "GAME_OVER" =>
       /\ totalRoundsCompleted = numberOfTeams * MAX_ROUNDS_PER_TEAM
       /\ \A i \in 0..(numberOfTeams - 1) :
            Occurrences(turnLog, i) = MAX_ROUNDS_PER_TEAM

\* a game of two teams is over after the six rounds 0,1,0,1,0,1
C23_Witness ==
  /\ state = "GAME_OVER" /\ numberOfTeams = 2
  /\ turnLog = <<0, 1, 0, 1, 0, 1>>

\* C24: timers run only in their own phase.  The round interval is registered
\* only in PLAYING while not paused, the countdown interval only in GET_READY,
\* and isPaused is true only in PLAYING; so in WELCOME, TEAM_SELECTION,
\* REVIEW, ROUND_OVER and GAME_OVER no callback is pending.
C24_TimersInOwnPhase ==
  /\ timers > 0 => state = "PLAYING" /\ ~isPaused
  /\ countdowns > 0 => state = "GET_READY"
  /\ isPaused => state = "PLAYING"
  /\ state \notin {"PLAYING", "GET_READY"} =>
       /\ timers = 0 /\ countdowns = 0
       /\ timerInterval = "cleared" /\ countdownInterval = "cleared"

\* the round of the first team is over: its countdown ran down, its timer
\* expired after two ticks, and nothing is registered any more
C24_Witness ==
  /\ state = "ROUND_OVER" /\ totalRoundsCompleted = 1
  /\ countdownTime = 0 /\ timeLeft = 0 /\ roundTicks = 2
  /\ timers = 0 /\ countdowns = 0 /\ ~isPaused

\* C25: throughout PLAYING roundScore equals the number of record entries
\* with status correct; a confirm that follows the expiry without any toggle
\* adds exactly the roundScore shown at expiry.
C25_LiveScoreMatchesRecord ==
  /\ state = "PLAYING" => roundScore = CountCorrect(roundCards)
  /\ (timers > 0 /\ timeLeft = 1) =>
       LET r == updateTimer(Obj)
           c == confirmScore(r)
       IN /\ r.state = "REVIEW"
          /\ r.roundScore = roundScore
          /\ c.teams[currentTeamIndex + 1].score =
               teams[currentTeamIndex + 1].score + roundScore

\* the timer expired on a record of one correct and one skipped card
C25_Witness ==
  /\ state = "REVIEW" /\ timeLeft = 0
  /\ Len(roundCards) = 2 /\ roundScore = 1
  /\ CountCorrect(roundCards) = 1

\* C26: every started phase with a timer ends.  Under fair timer ticks a game
\* in GET_READY eventually reaches PLAYING (or is quit), and a game in PLAYING
\* that is not paused forever and not quit eventually reaches REVIEW, however
\* many correct and pass presses are interleaved with the ticks.
C26_CountdownEnds ==
  (state = "GET_READY") ~> (state \in {"PLAYING", "WELCOME"})

C26_RoundEnds ==
  ([]<>(~isPaused)) => ((state = "PLAYING") ~> (state \in {"REVIEW", "WELCOME"}))

C26_TimedPhasesEnd == C26_CountdownEnds /\ C26_RoundEnds

\* the weaker statement: a round that is eventually left unpaused for good
\* reaches REVIEW or is quit
C26_RoundEndsOnceLeftUnpaused ==
  (<>[](~isPaused)) => ((state = "PLAYING") ~> (state \in {"REVIEW", "WELCOME"}))

====
